---- MODULE Spec2Model ----
(***************************************************************************)
(* A model of piaa.observation.Observation: the point-source catalog       *)
(* filter, the drift-aware stamp geometry, the data cube and its           *)
(* background subtraction, the persisted per-source stamp cubes and the    *)
(* pairwise variance grid.                                                 *)
(*                                                                         *)
(* Pixel coordinates are fixed-point numbers: a coordinate c stands for    *)
(* c / SubPixel pixels, so that the rounding done by the code (ceil, int)  *)
(* is a real computation.  Sizes and slices are whole pixels.              *)
(*                                                                         *)
(* A frame is a row of background boxes, each of one pixel level: the      *)
(* frame's level depends on the column only, box by box.                   *)
(***************************************************************************)
EXTENDS Integers, Sequences, FiniteSets, TLC

\* ------------------------------------------------------------------ bounds
SubPixel == 2          \* coordinate units per pixel
NumCatalog == 3        \* rows of the catalog file (SpecCatalog)
NumTracked == 2        \* rows of the catalog file (SpecGeom, SpecStamps)
NumSources == 3        \* point sources of the variance grid (SpecVar)
NumFrames == 3         \* frames of the observation
MaxLevel == 150        \* subtract_background is not run on levels beyond this

\* ------------------------------------------------------- program constants
ImgH == 3476           \* self._img_h
ImgW == 5208           \* self._img_w
EdgeMargin == 60       \* stamp_size in lookup_point_sources
SuperPixelPad == 8     \* _pad_super_pixel block
ExtraRows == 8         \* + 8 in the Cutout2D size
ExtraCols == 4         \* + 4 in the Cutout2D size
CameraBias == 1024     \* camera_bias
BackgroundBoxH == 316  \* background_box_h
BackgroundBoxW == 434  \* background_box_w
SampleCap == 5         \* len(r_channel_background) < 5

VARIABLES
    catalog,           \* the catalog file: [has_flags, rows]
    wcs,               \* the frames' WCS: sky id -> frame -> <<x, y>> pixel position
    point_sources,     \* self._point_sources: <<>> (None) or <<table>>
    pixel_locations,   \* self._pixel_locations: <<>> (None) or <<panel>>
    stamps_cache,      \* self._stamps_cache: source index -> Stamp
    stamp_size,        \* self.stamp_size
    files,             \* self.files: the names of the FITS files, in frame order
    raw_frames,        \* the FITS files: file name -> box -> pixel level
    data_cube,         \* dataset 'cube': <<>> (absent) or <<frame -> box -> pixel level>>
    filled,            \* the slabs of 'cube' that the creating access has assigned
    bg_done,           \* frame -> the frame as its first subtract_background left it
    back_box,          \* (_back_w, _back_h): <<>> (no such attributes) or <<w, h>>
    background_region, \* self.background_region: <<frame, cell>> -> cached samples
    subtracted,        \* datasets 'subtracted/<index>' of the subtracted store
    attrs,             \* attributes of the subtracted store
    vgrid,             \* dataset 'vgrid': <<>> (absent) or <<matrix>>
    last,              \* the most recent call and what it returned or raised
    first_geom,        \* source index -> geometry of its first unforced get_source_slice
    called             \* targets get_variance_for_target has run for

vars == <<catalog, wcs, point_sources, pixel_locations, stamps_cache, stamp_size,
          files, raw_frames, data_cube, filled, bg_done, back_box, background_region,
          subtracted, attrs, vgrid, last, first_geom, called>>

\* the variables of the data cube's files and of the stamp-level background
cube_files == <<files, raw_frames>>
stamp_background == <<back_box, background_region>>

Frames == 0 .. (NumFrames - 1)

\* the background boxes across a frame: 5208 / 434 of them
Boxes == 0 .. ((ImgW \div BackgroundBoxW) - 1)

\* a frame with one level everywhere
Uniform(level) == [b \in Boxes |-> level]

\* --------------------------------------------------------------- arithmetic
Abs(n) == IF n < 0 THEN -n ELSE n

\* np.ceil(a / b) for b > 0
CeilDiv(a, b) == -((-a) \div b)

Max(a, b) == IF a > b THEN a ELSE b
Min(a, b) == IF a < b THEN a ELSE b

\* a whole number of pixels as a coordinate
Px(n) == n * SubPixel

\* --------------------------------------------------------- the last call
NoCall == [op |-> "none", source |-> -1, frame |-> -1, force_new |-> FALSE,
           subtract_background |-> FALSE, reshape |-> FALSE, persisted |-> FALSE,
           repeat |-> FALSE, due |-> {},
           raised |-> "none", ret |-> <<>>, rect |-> <<>>, failed |-> {},
           visited |-> {}, written |-> {}, before |-> <<>>,
           reads |-> <<>>, masks |-> FALSE, store_background |-> FALSE,
           mid_point |-> <<>>, cell |-> <<>>, samples |-> <<>>]

\* ------------------------------------------------------ lookup_point_sources
\* point_sources[point_sources['FLAGS'] == 0], when the catalog has the column
Unflagged(cat) ==
    IF cat.has_flags
    THEN SelectSeq(cat.rows, LAMBDA r : r.FLAGS = 0)
    ELSE cat.rows

\* a variant of the edge masks that takes w for the width and h for the height
KeepWrongAxes(r) ==
    LET w == ImgW
        h == ImgH
        top == r.Y > Px(EdgeMargin)
        bottom == r.Y < Px(w - EdgeMargin)
        left == r.X > Px(EdgeMargin)
        right == r.X < Px(h - EdgeMargin)
    IN  top /\ bottom /\ right /\ left

\* the four edge masks; w, h = (3476, 5208) as the code names them
AwayFromEdges(r) ==
    LET w == ImgH
        h == ImgW
        top == r.Y > Px(EdgeMargin)
        bottom == r.Y < Px(w - EdgeMargin)
        left == r.X > Px(EdgeMargin)
        right == r.X < Px(h - EdgeMargin)
    IN  top /\ bottom /\ right /\ left

\* the table lookup_point_sources stores; to_pandas() renumbers the rows 0..n-1,
\* here 1..n (Sequences)
FilteredSources(cat) ==
    LET kept == SelectSeq(Unflagged(cat), AwayFromEdges)
    IN  [i \in 1 .. Len(kept) |-> [X |-> kept[i].X, Y |-> kept[i].Y, sky |-> kept[i].sky]]

LookupPointSources ==
    /\ point_sources' = << FilteredSources(catalog) >>
    /\ last' = [NoCall EXCEPT !.op = "lookup_point_sources",
                              !.ret = << FilteredSources(catalog) >>]
    /\ UNCHANGED <<catalog, wcs, pixel_locations, stamps_cache, stamp_size, cube_files,
                   data_cube, filled, bg_done, stamp_background,
                   subtracted, attrs, vgrid, first_geom, called>>

\* ------------------------------------------------------------- _load_images
\* the decimal digits of a frame number below 100
Digits(n) == IF n < 10 THEN <<n>> ELSE <<n \div 10, n % 10>>

\* the number a file name stands for
NumberOf(name) == IF Len(name) = 1 THEN name[1] ELSE 10 * name[1] + name[2]

\* the FITS files of the image directory are named by consecutive frame
\* numbers that pass from one digit to two: 8, 9, 10, ...
FileNames == {Digits(8 + k) : k \in Frames}

\* the files in the order of their numbers, one order glob may list them in
Listing == [i \in 1 .. NumFrames |-> Digits(8 + (i - 1))]

\* a < b for two strings
RECURSIVE LexLess(_, _)
LexLess(a, b) ==
    IF b = <<>> THEN FALSE
    ELSE IF a = <<>> THEN TRUE
    ELSE IF a[1] # b[1] THEN a[1] < b[1]
    ELSE LexLess(Tail(a), Tail(b))

\* a variant that keeps the files as glob listed them
AsListed(listing) == listing

\* seq_files.sort()
SortFiles(listing) ==
    LET names == {listing[i] : i \in 1 .. Len(listing)}
    IN  [i \in 1 .. Len(listing) |->
            CHOOSE x \in names : Cardinality({y \in names : LexLess(y, x)}) = i - 1]

\* self.files after _load_images
LoadImages(listing) == SortFiles(listing)

\* ---------------------------------------------------------- catalog inputs
Row(x, y, flags, id) == [X |-> x, Y |-> y, FLAGS |-> flags, sky |-> id]

\* catalog positions on, just inside and just outside the edge margin
CatalogPositions ==
    { <<Px(4000), Px(1000), 0>>,
      <<Px(4000), Px(1000), 4>>,
      <<Px(EdgeMargin), Px(1000), 0>>,
      <<Px(EdgeMargin) + 1, Px(EdgeMargin) + 1, 0>>,
      <<Px(ImgW - EdgeMargin), Px(1000), 0>>,
      <<Px(ImgW - EdgeMargin) - 1, Px(ImgH - EdgeMargin) - 1, 0>>,
      <<Px(4000), Px(EdgeMargin), 0>>,
      <<Px(1000), Px(ImgH - EdgeMargin), 0>>,
      <<Px(1000), Px(ImgH - EdgeMargin) + 1, 0>> }

NoTrack == [f \in Frames |-> <<0, 0>>]

InitCommon ==
    /\ point_sources = <<>>
    /\ pixel_locations = <<>>
    /\ stamps_cache = <<>>
    /\ stamp_size = <<>>
    /\ files = LoadImages(Listing)
    /\ raw_frames = [name \in FileNames |-> Uniform(CameraBias + 10 * NumberOf(name))]
    /\ data_cube = <<>>
    /\ filled = {}
    /\ bg_done = <<>>
    /\ back_box = <<>>
    /\ background_region = <<>>
    /\ subtracted = <<>>
    /\ attrs = <<>>
    /\ vgrid = <<>>
    /\ last = NoCall
    /\ first_geom = <<>>
    /\ called = {}

InitCatalog ==
    /\ \E flags \in BOOLEAN :
       \E pick \in [1 .. NumCatalog -> CatalogPositions] :
          catalog = [has_flags |-> flags,
                     rows |-> [i \in 1 .. NumCatalog |->
                                 Row(pick[i][1], pick[i][2],
                                     IF flags THEN pick[i][3] ELSE 0, i)]]
    /\ wcs = [i \in 1 .. NumCatalog |-> NoTrack]
    /\ InitCommon

NextCatalog == LookupPointSources

SpecCatalog == InitCatalog /\ [][NextCatalog]_vars

\* ------------------------------------------------------------------ C10
\* C10: lookup_point_sources returns exactly the catalog sources that are
\* unflagged and strictly more than the 60-pixel margin away from all four
\* edges of the 3476 x 5208 frame (60 < X < 5208 - 60, 60 < Y < 3476 - 60),
\* in catalog order.
InsideMargin(r) ==
    /\ 60 * SubPixel < r.X
    /\ r.X < (5208 - 60) * SubPixel
    /\ 60 * SubPixel < r.Y
    /\ r.Y < (3476 - 60) * SubPixel

Wanted(r) == InsideMargin(r) /\ (catalog.has_flags => r.FLAGS = 0)

C10_LookupReturnsExactlyInsideUnflagged ==
    last.op = "lookup_point_sources" =>
        LET got == last.ret[1]
            want == SelectSeq(catalog.rows, Wanted)
        IN  /\ Len(got) = Len(want)
            /\ \A i \in 1 .. Len(got) : got[i].sky = want[i].sky
            /\ point_sources = last.ret

\* three catalog rows, two of them within the margin, one returned
C10_Witness ==
    /\ last.op = "lookup_point_sources"
    /\ Len(catalog.rows) >= 3
    /\ Cardinality({i \in 1 .. Len(catalog.rows) : catalog.rows[i].FLAGS = 0
                        /\ ~InsideMargin(catalog.rows[i])}) = 2
    /\ \A i \in 1 .. Len(catalog.rows) : catalog.rows[i].FLAGS = 0
    /\ Len(point_sources[1]) = Len(catalog.rows) - 2

\* ---------------------------------------------------------- pixel_locations
\* the lazy point_sources property
PointSourcesAfter ==
    IF point_sources = <<>> THEN << FilteredSources(catalog) >> ELSE point_sources

\* the lazy pixel_locations property: one all_world2pix per frame, for the
\* sky coordinates of the point sources
PixelLocationsAfter ==
    IF pixel_locations = <<>>
    THEN LET ps == PointSourcesAfter[1]
         IN  << [i \in 1 .. Len(ps) |-> wcs[ps[i].sky]] >>
    ELSE pixel_locations

PixelLocations ==
    /\ point_sources' = PointSourcesAfter
    /\ pixel_locations' = PixelLocationsAfter
    /\ last' = [NoCall EXCEPT !.op = "pixel_locations"]
    /\ UNCHANGED <<catalog, wcs, stamps_cache, stamp_size, cube_files, data_cube,
                   filled, bg_done, stamp_background,
                   subtracted, attrs, vgrid, first_geom, called>>

\* ------------------------------------------------------------ stamp geometry
\* start, middle and end position of source idx
GetStampPoints(locs, idx) ==
    << locs[idx][0], locs[idx][NumFrames \div 2], locs[idx][NumFrames - 1] >>

\* int(v) of a coordinate: truncation toward zero, in pixels
IntPart(c) == IF c >= 0 THEN c \div SubPixel ELSE -((-c) \div SubPixel)

\* utils.pixel_color(col, row): the channel of the 2x2 colour pattern
PixelColor(col, row) ==
    LET r == IntPart(row) % 2
        c == IntPart(col) % 2
    IN  IF r = 1 /\ c = 0 THEN "R"
        ELSE IF r = 1 /\ c = 1 THEN "G1"
        ELSE IF r = 0 /\ c = 0 THEN "G2"
        ELSE "B"

AdjustStampMidpoint(mid_pos) ==
    LET color == PixelColor(mid_pos[1], mid_pos[2])
        x0 == mid_pos[1]
        y0 == mid_pos[2]
        x1 == IF color = "G2" THEN x0 - Px(1)
              ELSE IF color = "G1" THEN x0
              ELSE IF color = "B" THEN x0 - Px(1)
              ELSE x0 + Px(1)
        y1 == IF color = "G2" THEN y0
              ELSE IF color = "G1" THEN y0 - Px(1)
              ELSE IF color = "B" THEN y0
              ELSE y0 + Px(1)
    IN  << x1 - Px(2), y1 + Px(4) >>

\* a variant that rounds the extent down to a block
PadDown(num) == (Abs(num) \div Px(SuperPixelPad)) * SuperPixelPad

\* int(np.ceil(np.abs(num) / 8)) * 8, in pixels
PadSuperPixel(num) == CeilDiv(Abs(num), Px(SuperPixelPad)) * SuperPixelPad

\* the (rows, columns) asked of Cutout2D
CutoutSize(start_pos, end_pos) ==
    LET width == start_pos[1] - end_pos[1]
        height == start_pos[2] - end_pos[2]
    IN  << PadSuperPixel(height) + ExtraRows, PadSuperPixel(width) + ExtraCols >>

\* the rectangle Cutout2D is asked for: <<first row, end row, first col, end col>>,
\* edges at ceil(position -+ size / 2), ends exclusive
RequestedRect(mid_pos, size) ==
    << CeilDiv(2 * mid_pos[2] - Px(size[1]), 2 * SubPixel),
       CeilDiv(2 * mid_pos[2] + Px(size[1]), 2 * SubPixel),
       CeilDiv(2 * mid_pos[1] - Px(size[2]), 2 * SubPixel),
       CeilDiv(2 * mid_pos[1] + Px(size[2]), 2 * SubPixel) >>

\* Cutout2D raises NoOverlapError when the rectangle misses the frame
NoOverlap(rect) ==
    \/ rect[2] <= 0
    \/ rect[4] <= 0
    \/ rect[1] >= ImgH
    \/ rect[3] >= ImgW

\* Cutout2D in its default mode 'trim', and the Stamp built from its bbox_original
MakeStamp(mid_pos, rect) ==
    LET r0 == Max(0, rect[1])
        r1 == Min(ImgH, rect[2])
        c0 == Max(0, rect[3])
        c1 == Min(ImgW, rect[4])
    IN  [row_slice |-> <<r0, r1>>,
         col_slice |-> <<c0, c1>>,
         mid_point |-> mid_pos,
         cutout |-> [shape |-> <<r1 - r0, c1 - c0>>]]

\* what the except branch of get_source_slice computes for source_index
NewStampRect(locs, source_index) ==
    LET pts == GetStampPoints(locs, source_index)
        mid_pos == AdjustStampMidpoint(pts[2])
    IN  RequestedRect(mid_pos, CutoutSize(pts[1], pts[3]))

NewStamp(locs, source_index) ==
    LET pts == GetStampPoints(locs, source_index)
    IN  MakeStamp(AdjustStampMidpoint(pts[2]), NewStampRect(locs, source_index))

Geometry(stamp) == << stamp.row_slice, stamp.col_slice, stamp.mid_point >>

\* ---------------------------------------------------------- get_source_slice
Without(f, k) == [x \in (DOMAIN f) \ {k} |-> f[x]]
With(f, k, v) == [x \in (DOMAIN f) \cup {k} |-> IF x = k THEN v ELSE f[x]]

\* a variant that keeps one entry for all sources
CachedStampOfAny(cache_map, source_index) ==
    cache_map[CHOOSE k \in DOMAIN cache_map : \A j \in DOMAIN cache_map : k <= j]

\* self._stamps_cache[source_index]
CachedStamp(cache_map, source_index) == cache_map[source_index]

\* the try block finds the stamp: no force_new, and an entry in the cache
CacheHit(source_index, force_new) ==
    (~force_new) /\ source_index \in DOMAIN stamps_cache

\* the cache after the try block: force_new deletes the entry before the lookup
CacheAfterTry(source_index, force_new) ==
    IF force_new /\ source_index \in DOMAIN stamps_cache
    THEN Without(stamps_cache, source_index)
    ELSE stamps_cache

\* the geometry of the first unforced call for a source, and whether a later
\* unforced call for it has returned
NoteFirst(source_index, force_new, stamp) ==
    IF force_new
    THEN first_geom
    ELSE IF source_index \in DOMAIN first_geom
         THEN [first_geom EXCEPT ![source_index].again = TRUE]
         ELSE With(first_geom, source_index,
                   [geometry |-> Geometry(stamp), again |-> FALSE])

GetSourceSlice(source_index, force_new, cache) ==
    /\ source_index \in 1 .. Len(PointSourcesAfter[1])
    /\ IF CacheHit(source_index, force_new)
       THEN LET stamp == CachedStamp(stamps_cache, source_index)
            IN  /\ last' = [NoCall EXCEPT !.op = "get_source_slice",
                                          !.source = source_index,
                                          !.force_new = force_new,
                                          !.ret = << stamp >>]
                /\ first_geom' = NoteFirst(source_index, force_new, stamp)
                /\ UNCHANGED <<point_sources, pixel_locations, stamps_cache, stamp_size>>
       ELSE LET locs == PixelLocationsAfter[1]
                rect == NewStampRect(locs, source_index)
                stamp == NewStamp(locs, source_index)
            IN  /\ point_sources' = PointSourcesAfter
                /\ pixel_locations' = PixelLocationsAfter
                /\ IF NoOverlap(rect)
                   THEN /\ stamps_cache' = CacheAfterTry(source_index, force_new)
                        /\ last' = [NoCall EXCEPT !.op = "get_source_slice",
                                                  !.source = source_index,
                                                  !.force_new = force_new,
                                                  !.raised = "NoOverlapError",
                                                  !.rect = rect]
                        /\ UNCHANGED <<stamp_size, first_geom>>
                   ELSE /\ stamp_size' = stamp.cutout.shape
                        /\ stamps_cache' =
                               IF cache
                               THEN With(CacheAfterTry(source_index, force_new),
                                         source_index, stamp)
                               ELSE CacheAfterTry(source_index, force_new)
                        /\ last' = [NoCall EXCEPT !.op = "get_source_slice",
                                                  !.source = source_index,
                                                  !.force_new = force_new,
                                                  !.ret = << stamp >>,
                                                  !.rect = rect]
                        /\ first_geom' = NoteFirst(source_index, force_new, stamp)
    /\ UNCHANGED <<catalog, wcs, cube_files, data_cube, filled, bg_done,
                   stamp_background, subtracted, attrs, vgrid, called>>

\* ------------------------------------------------------------ tracked inputs
\* a catalog row with the drift of its source from the first to the last frame:
\* <<X, Y, FLAGS, drift in x, drift in y, linear>>
TrackedCases ==
    { <<Px(2604), Px(1738), 0, 0, 0, TRUE>>,
      <<Px(ImgW - EdgeMargin) - 1, Px(ImgH - EdgeMargin) - 1, 0, Px(32), Px(32), FALSE>>,
      <<Px(EdgeMargin) + 1, Px(1738), 0, -Px(64), 0, TRUE>>,
      <<Px(1001), Px(2001) + 1, 0, Px(9) + 1, -Px(3), TRUE>>,
      <<Px(1000), Px(ImgH - 6), 0, 0, 0, TRUE>> }

\* the position of a source in frame f: the catalog position in frame 0, then
\* either a linear drift or a jump to the end position
TrackOf(c) ==
    [f \in Frames |->
        IF f = 0 THEN <<c[1], c[2]>>
        ELSE IF c[6]
             THEN << c[1] + (c[4] * f) \div (NumFrames - 1),
                     c[2] + (c[5] * f) \div (NumFrames - 1) >>
             ELSE << c[1] + c[4], c[2] + c[5] >>]

InitGeom ==
    /\ \E pick \in [1 .. NumTracked -> TrackedCases] :
          /\ catalog = [has_flags |-> TRUE,
                        rows |-> [i \in 1 .. NumTracked |->
                                    Row(pick[i][1], pick[i][2], pick[i][3], i)]]
          /\ wcs = [i \in 1 .. NumTracked |-> TrackOf(pick[i])]
    /\ InitCommon

NextGeom ==
    \/ LookupPointSources
    \/ PixelLocations
    \/ \E s \in 1 .. NumTracked : \E force_new \in BOOLEAN : \E cache \in BOOLEAN :
          GetSourceSlice(s, force_new, cache)

SpecGeom == InitGeom /\ [][NextGeom]_vars

\* ------------------------------------------------------------------- C7
\* C7: every unforced get_source_slice call for a source returns the geometry
\* (row slice, column slice, adjusted midpoint) that the first unforced call
\* for that source returned, whatever calls (forced or not, cached or not, for
\* this or another source) came in between.
C7_SliceGeometryStable ==
    (last.op = "get_source_slice" /\ ~last.force_new /\ last.ret # <<>>) =>
        /\ last.source \in DOMAIN first_geom
        /\ Geometry(last.ret[1]) = first_geom[last.source].geometry

\* a second unforced call for a source, with a stamp of another geometry cached
\* for another source
C7_Witness ==
    /\ last.op = "get_source_slice" /\ ~last.force_new /\ last.ret # <<>>
    /\ last.source \in DOMAIN first_geom
    /\ first_geom[last.source].again
    /\ \E o \in DOMAIN stamps_cache :
          o # last.source /\ Geometry(stamps_cache[o]) # Geometry(last.ret[1])

\* ------------------------------------------------------------------- C8
RectInsideFrame(rect) ==
    /\ 0 <= rect[1]
    /\ rect[2] <= 3476
    /\ 0 <= rect[3]
    /\ rect[4] <= 5208

\* C8 as stated: for every source the edge filter returned and every drift, the
\* rectangle get_source_slice asks for lies inside the 3476 x 5208 frame, so
\* the slices are never clipped.
C8_StampAlwaysInsideFrame ==
    (last.op = "get_source_slice" /\ last.rect # <<>>) =>
        /\ RectInsideFrame(last.rect)
        /\ last.raised = "none"

\* the middle-frame position within 32 pixels of the catalog position and the
\* first and last positions within 32 pixels of each other, in each axis
DriftWithin32(s) ==
    LET pts == GetStampPoints(pixel_locations[1], s)
        src == point_sources[1][s]
    IN  /\ Abs(pts[2][1] - src.X) <= 32 * SubPixel
        /\ Abs(pts[2][2] - src.Y) <= 32 * SubPixel
        /\ Abs(pts[1][1] - pts[3][1]) <= 32 * SubPixel
        /\ Abs(pts[1][2] - pts[3][2]) <= 32 * SubPixel

\* C8 amended: for every source the edge filter returned whose tracked
\* middle-frame position is within 32 pixels of its catalog position and whose
\* first-to-last drift is at most 32 pixels, in each axis, the rectangle
\* get_source_slice asks for lies inside the frame and the stamp has the
\* requested size.
C8_StampInsideFrameUnderSmallDrift ==
    (last.op = "get_source_slice" /\ last.rect # <<>> /\ DriftWithin32(last.source)) =>
        /\ RectInsideFrame(last.rect)
        /\ last.raised = "none"
        /\ last.ret[1].cutout.shape =
               << last.rect[2] - last.rect[1], last.rect[4] - last.rect[3] >>

\* a source at the margin that drifts by the full 32 pixels towards the edge
C8_Witness ==
    /\ last.op = "get_source_slice" /\ last.rect # <<>>
    /\ DriftWithin32(last.source)
    /\ Abs(GetStampPoints(pixel_locations[1], last.source)[2][2]
             - point_sources[1][last.source].Y) = 32 * SubPixel
    /\ last.rect[2] > 3476 - 8

\* ------------------------------------------------------------------- C11
\* the drift extents <<width, height>> of a source and the padded extents the
\* cutout of the last call was asked with (its size less the 8 rows and the
\* 4 columns the call adds)
DriftExtent(s) ==
    LET pts == GetStampPoints(pixel_locations[1], s)
    IN  << pts[1][1] - pts[3][1], pts[1][2] - pts[3][2] >>

PaddedExtent(rect) == << (rect[4] - rect[3]) - 4, (rect[2] - rect[1]) - 8 >>

PatternPosition(mid_point) == << IntPart(mid_point[1]) % 2, IntPart(mid_point[2]) % 2 >>

\* C16: the adjusted midpoints of all stamps lie on one position of the 2x2
\* colour pattern, whatever the colour of the raw midpoint was.
C16_AdjustedMidpointOnOneChannel ==
    \A s, t \in DOMAIN stamps_cache :
        PatternPosition(stamps_cache[s].mid_point) = PatternPosition(stamps_cache[t].mid_point)

\* ----------------------------------------------------------------- data_cube
\* the data_cube property: the dataset, created from the files on first access
\* fits.getdata(f) - self.camera_bias
BiasSubtracted(name) == [b \in Boxes |-> raw_frames[name][b] - CameraBias]

\* a slab that create_dataset made and nothing has assigned
EmptySlab == Uniform(0)

\* the dataset after the loop has filled the slabs before slab `stop`
CubeFilledTo(stop) ==
    [f \in Frames |-> IF f < stop THEN BiasSubtracted(files[f + 1]) ELSE EmptySlab]

DataCubeAfter ==
    IF data_cube = <<>>
    THEN << CubeFilledTo(NumFrames) >>
    ELSE data_cube

\* the slabs assigned once the property has returned
FilledAfter == IF data_cube = <<>> THEN Frames ELSE filled

\* the property itself.  unreadable is the frame whose file fits.getdata
\* fails to read, NumFrames when every file can be read.
DataCube(unreadable) ==
    LET call == [NoCall EXCEPT !.op = "data_cube",
                               !.persisted = data_cube # <<>>,
                               !.before = data_cube]
    IN  /\ IF data_cube # <<>>
           THEN /\ last' = [call EXCEPT !.ret = data_cube]
                /\ UNCHANGED <<data_cube, filled>>
           ELSE /\ data_cube' = << CubeFilledTo(unreadable) >>
                /\ filled' = {f \in Frames : f < unreadable}
                /\ last' = [call EXCEPT
                              !.reads = SubSeq(files, 1, Min(unreadable + 1, NumFrames)),
                              !.raised = IF unreadable < NumFrames THEN "IOError"
                                         ELSE "none",
                              !.ret = IF unreadable < NumFrames THEN <<>>
                                      ELSE << CubeFilledTo(unreadable) >>]
        /\ UNCHANGED <<catalog, wcs, point_sources, pixel_locations, stamps_cache,
                       stamp_size, cube_files, bg_done, stamp_background, subtracted,
                       attrs, vgrid, first_geom, called>>

\* data_cube[:, row_slice, col_slice]: every pixel of frame f of the stamp at the
\* level of the box the stamp begins in
CubeSlice(cube, stamp) ==
    [rows |-> stamp.row_slice[2] - stamp.row_slice[1],
     cols |-> stamp.col_slice[2] - stamp.col_slice[1],
     frames |-> [f \in Frames |-> cube[f][stamp.col_slice[1] \div BackgroundBoxW]]]

\* --------------------------------------------------------- subtract_background
Median3(a, b, c) == (a + b + c) - Max(a, Max(b, c)) - Min(a, Min(b, c))

\* the box next to b on either side; at the ends of the row, the end box itself
BoxLeft(b) == Max(b - 1, 0)
BoxRight(b) == Min(b + 1, (ImgW \div BackgroundBoxW) - 1)

\* Background2D(data, (box_h, box_w), filter_size=(3, 3), MedianBackground):
\* the median of each box, here the box's level, then the median over the box
\* and its neighbours.  The levels do not change down a column of boxes, so the
\* 3 x 3 window holds each of three levels three times.  The three channels of
\* a box have one level, so the background is the same in each.
BackgroundOf(frame) ==
    [b \in Boxes |-> Median3(frame[BoxLeft(b)], frame[b], frame[BoxRight(b)])]

\* the frame after the loop over the colours: the channel masks partition the
\* pixels, so every pixel loses the background of its box once
BackgroundSubtracted(frame) == [b \in Boxes |-> frame[b] - BackgroundOf(frame)[b]]

\* the frame-level pass over the frames of the list
SubtractBackground(frames) ==
    LET cube == DataCubeAfter[1]
        after == [f \in Frames |->
                     IF f \in frames THEN BackgroundSubtracted(cube[f]) ELSE cube[f]]
    IN  /\ \A f \in frames : \A b \in Boxes : Abs(cube[f][b]) <= MaxLevel
        /\ data_cube' = << after >>
        /\ filled' = FilledAfter
        /\ bg_done' = [f \in (DOMAIN bg_done) \cup frames |->
                          IF f \in DOMAIN bg_done THEN bg_done[f] ELSE after[f]]
        /\ last' = [NoCall EXCEPT !.op = "subtract_background",
                                  !.visited = frames,
                                  !.repeat = (frames \cap DOMAIN bg_done # {})]
        /\ UNCHANGED <<catalog, wcs, point_sources, pixel_locations, stamps_cache,
                       stamp_size, cube_files, stamp_background, subtracted, attrs,
                       vgrid, first_geom, called>>

\* --------------------------------------------------------------- cube inputs
\* the orders glob may list the files in
Listings ==
    {l \in [1 .. NumFrames -> FileNames] :
        \A i, j \in 1 .. NumFrames : l[i] = l[j] => i = j}

\* a frame of level 10 everywhere, and a frame whose level goes up and down
\* from box to box in the middle of the row: 0, 50, 10, 60, 20
Comb ==
    [b \in Boxes |->
        IF b < 4 THEN 0
        ELSE IF b = 4 THEN 50
        ELSE IF b = 5 THEN 10
        ELSE IF b = 6 THEN 60
        ELSE 20]

FramePatterns == {Uniform(10), Comb}

\* the observation after construction: the files sorted, no dataset yet
InitCube ==
    /\ catalog = [has_flags |-> TRUE, rows |-> <<>>]
    /\ wcs = <<>>
    /\ point_sources = <<>>
    /\ pixel_locations = <<>>
    /\ stamps_cache = <<>>
    /\ stamp_size = <<>>
    /\ \E listing \in Listings : files = LoadImages(listing)
    /\ \E pattern \in [FileNames -> FramePatterns] :
          raw_frames = [name \in FileNames |->
                          [b \in Boxes |-> CameraBias + NumberOf(name) + pattern[name][b]]]
    /\ data_cube = <<>>
    /\ filled = {}
    /\ bg_done = <<>>
    /\ back_box = <<>>
    /\ background_region = <<>>
    /\ subtracted = <<>>
    /\ attrs = <<>>
    /\ vgrid = <<>>
    /\ last = NoCall
    /\ first_geom = <<>>
    /\ called = {}

NextCube ==
    \/ \E unreadable \in 0 .. NumFrames : DataCube(unreadable)
    \/ \E frames \in {Frames, {0}} : SubtractBackground(frames)

SpecCube == InitCube /\ [][NextCube]_vars

\* ------------------------------------------------------------------- C12
\* C12: a data_cube access that finds no dataset 'cube' and reads every file
\* creates it and fills slab i with the data, less the bias of 1024, of the
\* i-th file in lexicographic order of the names; an access that finds the
\* dataset reads no file, leaves the dataset as it was and returns it.
C12_CubeBuiltOnceInFileOrder ==
    (last.op = "data_cube" /\ last.raised = "none") =>
        IF last.persisted
        THEN /\ last.reads = <<>>
             /\ data_cube = last.before
             /\ last.ret = data_cube
        ELSE /\ Len(last.reads) = NumFrames
             /\ {last.reads[i] : i \in 1 .. NumFrames} = DOMAIN raw_frames
             /\ \A i, j \in 1 .. NumFrames :
                   i < j => LexLess(last.reads[i], last.reads[j])
             /\ \A i \in 1 .. NumFrames : \A b \in Boxes :
                   data_cube[1][i - 1][b] = raw_frames[last.reads[i]][b] - 1024
             /\ last.ret = data_cube

\* a later access to a cube that the first access built: slab 0 holds the
\* file named 10, not the file named 8
C12_Witness ==
    /\ last.op = "data_cube" /\ last.raised = "none" /\ last.persisted
    /\ filled = Frames
    /\ bg_done = <<>>
    /\ data_cube[1][0][0] = raw_frames[<<1, 0>>][0] - 1024
    /\ data_cube[1][0][0] # raw_frames[<<8>>][0] - 1024

\* ------------------------------------------------------------------- C13
\* C13: when subtract_background has run, every frame of its list is as the
\* first subtract_background that processed the frame left it: a second pass
\* over a frame does not change it.
C13_SecondPassLeavesFrame ==
    last.op = "subtract_background" =>
        \A f \in last.visited : data_cube[1][f] = bg_done[f]

\* ------------------------------------------------------------------- C18
\* C18: whenever a data_cube access returns the dataset, every slab of it has
\* been assigned, also when an earlier access failed while reading a file.
C18_ReturnedCubeIsFilled ==
    (last.op = "data_cube" /\ last.ret # <<>>) => filled = Frames

\* --------------------------------------------------- subtract_frame_background
\* the k-th smallest sample of a list
KthSmallest(samples, k) ==
    CHOOSE v \in {samples[i] : i \in 1 .. Len(samples)} :
        /\ Cardinality({i \in 1 .. Len(samples) : samples[i] < v}) < k
        /\ k <= Cardinality({i \in 1 .. Len(samples) : samples[i] <= v})

\* twice np.median of the list: the middle sample, or the mean of the two
\* middle samples of a list of even length
TwiceMedian(samples) ==
    KthSmallest(samples, (Len(samples) + 1) \div 2)
        + KthSmallest(samples, (Len(samples) \div 2) + 1)

\* (int(mid_point[1] // self._back_w), int(mid_point[0] // self._back_h))
BackgroundRegionId(mid_point, box) ==
    << mid_point[2] \div (SubPixel * box[1]), mid_point[1] \div (SubPixel * box[2]) >>

\* the channel lists the three try blocks come up with: the cached lists of
\* the cell, or new empty ones
ChannelLists(key) ==
    IF key \in DOMAIN background_region THEN background_region[key] ELSE <<>>

\* whether the lists the call appends to are those of self.background_region:
\* they were found there, or the call stores its new ones
ListsAreCached(key, store_background) ==
    ChannelLists(key) # <<>> \/ store_background

\* the lists after the block of len(r_channel_background) < 5.  The stamp has
\* one level and no source in it: the clipped mean and median of each channel
\* are that level.
ListsAfterSampling(lists, stamp) ==
    IF Len(lists) < SampleCap THEN Append(lists, stamp.level) ELSE lists

\* the colour masks at line 247: those passed in, or those made inside the
\* block of fewer than 5 samples
MasksAtHand(lists, masks) == masks \/ Len(lists) < SampleCap

\* stamp: [rows, cols, level]; mid_point: <<x, y>>, or <<>> for None; masks:
\* whether r_mask, g_mask and b_mask are passed.  The levels of the result are
\* kept doubled, the median of an even number of samples being a half.
SubtractFrameBackground(stamp, frame_index, masks, mid_point, store_background) ==
    LET call == [NoCall EXCEPT !.op = "subtract_frame_background",
                               !.frame = frame_index,
                               !.masks = masks,
                               !.store_background = store_background,
                               !.mid_point = mid_point,
                               !.before = stamp]
    IN  /\ IF mid_point = <<>>
           THEN /\ last' = [call EXCEPT !.raised = "TypeError"]
                /\ UNCHANGED background_region
           ELSE IF back_box = <<>>
           THEN /\ last' = [call EXCEPT !.raised = "AttributeError"]
                /\ UNCHANGED background_region
           ELSE LET key == << frame_index, BackgroundRegionId(mid_point, back_box) >>
                    lists == ChannelLists(key)
                    sampled == ListsAfterSampling(lists, stamp)
                    seen == [call EXCEPT !.cell = key[2], !.samples = lists]
                IN  /\ background_region' =
                           With(background_region, key,
                                IF ListsAreCached(key, store_background)
                                THEN sampled ELSE <<>>)
                    /\ IF MasksAtHand(lists, masks)
                       THEN last' = [seen EXCEPT
                                       !.ret = << [rows |-> stamp.rows,
                                                   cols |-> stamp.cols,
                                                   doubled |-> 2 * stamp.level
                                                       - TwiceMedian(sampled)] >>]
                       ELSE last' = [seen EXCEPT !.raised = "TypeError"]
        /\ UNCHANGED <<catalog, wcs, point_sources, pixel_locations, stamps_cache,
                       stamp_size, cube_files, data_cube, filled, bg_done, back_box,
                       subtracted, attrs, vgrid, first_geom, called>>

\* nothing in the class assigns _back_w and _back_h; the caller does, with the
\* sides of the background box in one order or the other
AssignBackBox(box) ==
    /\ back_box = <<>>
    /\ back_box' = box
    /\ last' = [NoCall EXCEPT !.op = "assign _back_w, _back_h"]
    /\ UNCHANGED <<catalog, wcs, point_sources, pixel_locations, stamps_cache,
                   stamp_size, cube_files, data_cube, filled, bg_done,
                   background_region, subtracted, attrs, vgrid, first_geom, called>>

\* ------------------------------------------------------ stamp background inputs
\* the stamps handed in, by frame and midpoint: two midpoints of one 434 x 316
\* box of the last frame, a third one box further down, and one of frame 0
SampleCalls ==
    { <<0, <<Px(100), Px(100)>>, 10>>,
      <<NumFrames - 1, <<Px(100), Px(100)>>, 10>>,
      <<NumFrames - 1, <<Px(400), Px(100) + 1>>, 20>>,
      <<NumFrames - 1, <<Px(100), Px(350)>>, 30>>,
      <<NumFrames - 1, <<>>, 10>> }

InitSamples ==
    /\ catalog = [has_flags |-> TRUE, rows |-> <<>>]
    /\ wcs = <<>>
    /\ InitCommon

NextSamples ==
    \/ \E box \in { <<BackgroundBoxW, BackgroundBoxH>>, <<BackgroundBoxH, BackgroundBoxW>> } :
          AssignBackBox(box)
    \/ \E c \in SampleCalls : \E masks \in BOOLEAN : \E store_background \in BOOLEAN :
          SubtractFrameBackground([rows |-> ExtraRows, cols |-> ExtraCols, level |-> c[3]],
                                  c[1], masks, c[2], store_background)

SpecSamples == InitSamples /\ [][NextSamples]_vars

\* ------------------------------------------------------------------- C14
\* C14: a subtract_frame_background call (one that gets as far as the sample
\* lists) adds exactly one sample to the cached list of its (frame, cell) when
\* the list held fewer than 5, leaves a list of 5 as it is, never leaves more
\* than 5, and subtracts the median over the cached samples.
C14_SampleListGrowsToCap ==
    (/\ last.op = "subtract_frame_background"
     /\ last.mid_point # <<>>
     /\ last.raised # "AttributeError") =>
        LET cached == background_region[<< last.frame, last.cell >>]
        IN  /\ Len(last.samples) < 5 => cached = Append(last.samples, last.before.level)
            /\ Len(last.samples) = 5 => cached = last.samples
            /\ Len(cached) <= 5
            /\ last.raised = "none" =>
                   last.ret[1].doubled = 2 * last.before.level - TwiceMedian(cached)

\* ------------------------------------------------------------------- C15
\* C15: a subtract_frame_background call with midpoint (x, y) keys its samples
\* by the cell (x div 434, y div 316) of the background grid.
C15_SamplesKeyedByMidpointBox ==
    (last.op = "subtract_frame_background" /\ last.mid_point # <<>>) =>
        /\ last.raised # "AttributeError"
        /\ last.cell = << IntPart(last.mid_point[1]) \div 434,
                          IntPart(last.mid_point[2]) \div 316 >>

\* ------------------------------------------------------------------- C17
\* C17: a subtract_frame_background call without colour masks (one that gets as
\* far as the sample lists) completes and returns the subtracted stamp, in
\* every state of the sample cache.
C17_CallWithoutMasksReturns ==
    (/\ last.op = "subtract_frame_background"
     /\ ~last.masks
     /\ last.mid_point # <<>>
     /\ last.raised # "AttributeError") =>
        /\ last.raised = "none"
        /\ last.ret # <<>>

\* ---------------------------------------------------------------- create_stamps
MaxOf(S) == CHOOSE m \in S : \A x \in S : x <= m

\* the stamp get_source_slice(source_index) hands back, from the cache or new
SliceOf(locs, source_index) ==
    IF source_index \in DOMAIN stamps_cache
    THEN CachedStamp(stamps_cache, source_index)
    ELSE NewStamp(locs, source_index)

\* get_source_slice(source_index) raises
SliceFails(locs, source_index) ==
    /\ source_index \notin DOMAIN stamps_cache
    /\ NoOverlap(NewStampRect(locs, source_index))

\* a variant that takes up every source
EverySource(n, store) == 1 .. n

\* the sources the loop takes up: those with no dataset 'subtracted/<index>'
NotPersisted(n, store) == {s \in 1 .. n : s \notin DOMAIN store}

\* a variant with the try block around the loop: the first failure ends it
UpToFirstFailure(todo, failing) == {s \in todo : \A f \in failing : s <= f}

\* the sources the loop reaches: an exception is caught inside the loop body,
\* so a failing source does not keep the loop from the ones after it
Reached(todo, failing) == todo

NoteFirstAll(done, locs) ==
    [s \in (DOMAIN first_geom) \cup done |->
        IF s \in DOMAIN first_geom
        THEN IF s \in done THEN [first_geom[s] EXCEPT !.again = TRUE] ELSE first_geom[s]
        ELSE [geometry |-> Geometry(SliceOf(locs, s)), again |-> FALSE]]

\* io_fail: the sources for which create_dataset raises
CreateStamps(io_fail) ==
    LET ps == PointSourcesAfter[1]
        todo == NotPersisted(Len(ps), subtracted)
        wanted == PixelLocationsAfter[1]
        failing == {s \in todo : SliceFails(wanted, s) \/ s \in io_fail}
        reached == Reached(todo, failing)
        sliced == {s \in reached : ~SliceFails(wanted, s)}
        stored == sliced \ io_fail
        fresh == sliced \ DOMAIN stamps_cache
        cube == DataCubeAfter
    IN  /\ io_fail \subseteq 1 .. Len(ps)
        /\ point_sources' = PointSourcesAfter
        /\ pixel_locations' = IF reached \subseteq DOMAIN stamps_cache
                               THEN pixel_locations
                               ELSE PixelLocationsAfter
        /\ stamps_cache' = [s \in (DOMAIN stamps_cache) \cup fresh |->
                               IF s \in fresh THEN NewStamp(wanted, s) ELSE stamps_cache[s]]
        /\ stamp_size' = IF fresh = {} THEN stamp_size
                         ELSE NewStamp(wanted, MaxOf(fresh)).cutout.shape
        /\ data_cube' = IF sliced = {} THEN data_cube ELSE cube
        /\ filled' = IF sliced = {} THEN filled ELSE FilledAfter
        /\ subtracted' = [s \in (DOMAIN subtracted) \cup stored |->
                             IF s \in stored
                             THEN CubeSlice(cube[1], SliceOf(wanted, s))
                             ELSE subtracted[s]]
        /\ attrs' = IF sliced = {} THEN attrs
                    ELSE << SliceOf(wanted, MaxOf(sliced)).cutout.shape >>
        /\ first_geom' = IF sliced = {} THEN first_geom ELSE NoteFirstAll(sliced, wanted)
        /\ last' = [NoCall EXCEPT !.op = "create_stamps",
                                  !.failed = failing,
                                  !.visited = reached,
                                  !.before = subtracted]
        /\ UNCHANGED <<catalog, wcs, cube_files, bg_done, stamp_background, vgrid, called>>

\* -------------------------------------------------------------- get_frame_stamp
\* def subtract_background(self, frames=None): the call binds when it passes at
\* most one positional argument and no keyword but 'frames'
SubtractBackgroundBinds(positional, keywords) ==
    positional <= 1 /\ keywords \subseteq {"frames"}

\* one frame of a stamp cube
FrameOf(dataset, frame_index) ==
    [rows |-> dataset.rows, cols |-> dataset.cols, level |-> dataset.frames[frame_index]]

\* the try block raises KeyError: no dataset, or reshape with no stamp size stored
TryKeyError(source_index, reshape) ==
    \/ source_index \notin DOMAIN subtracted
    \/ reshape /\ attrs = <<>>

GetFrameStamp(source_index, frame_index, subtract_background, reshape) ==
    LET call == [NoCall EXCEPT !.op = "get_frame_stamp",
                               !.source = source_index,
                               !.frame = frame_index,
                               !.subtract_background = subtract_background,
                               !.reshape = reshape,
                               !.persisted = source_index \in DOMAIN subtracted]
    IN
    /\ source_index \in 1 .. Len(PointSourcesAfter[1])
    /\ IF ~TryKeyError(source_index, reshape)
       THEN LET stamp == FrameOf(subtracted[source_index], frame_index)
            IN  /\ IF ~reshape
                   THEN last' = [call EXCEPT !.ret = << stamp >>]
                   ELSE IF attrs[1][1] * attrs[1][2] = stamp.rows * stamp.cols
                        THEN last' = [call EXCEPT
                                        !.ret = << [stamp EXCEPT !.rows = attrs[1][1],
                                                                 !.cols = attrs[1][2]] >>]
                        ELSE last' = [call EXCEPT !.raised = "ValueError"]
                /\ UNCHANGED <<point_sources, pixel_locations, stamps_cache, stamp_size,
                               data_cube, filled, first_geom>>
       ELSE LET hit == CacheHit(source_index, FALSE)
                locs == PixelLocationsAfter[1]
                stamp_slice == SliceOf(locs, source_index)
            IN  IF SliceFails(locs, source_index)
                THEN /\ point_sources' = PointSourcesAfter
                     /\ pixel_locations' = PixelLocationsAfter
                     /\ last' = [call EXCEPT !.raised = "NoOverlapError"]
                     /\ UNCHANGED <<stamps_cache, stamp_size, data_cube, filled, first_geom>>
                ELSE /\ point_sources' = PointSourcesAfter
                     /\ pixel_locations' = IF hit THEN pixel_locations
                                           ELSE PixelLocationsAfter
                     /\ stamps_cache' = With(stamps_cache, source_index, stamp_slice)
                     /\ stamp_size' = IF hit THEN stamp_size
                                      ELSE stamp_slice.cutout.shape
                     /\ first_geom' = NoteFirst(source_index, FALSE, stamp_slice)
                     /\ data_cube' = DataCubeAfter
                     /\ filled' = FilledAfter
                     /\ IF subtract_background
                        THEN IF SubtractBackgroundBinds(2, {"mid_point"})
                             THEN last' = [call EXCEPT !.raised = "not a frame list"]
                             ELSE last' = [call EXCEPT !.raised = "TypeError"]
                        ELSE last' = [call EXCEPT
                                        !.ret = << FrameOf(CubeSlice(DataCubeAfter[1],
                                                                     stamp_slice),
                                                           frame_index) >>]
    /\ UNCHANGED <<catalog, wcs, cube_files, bg_done, stamp_background,
                   subtracted, attrs, vgrid, called>>

\* ------------------------------------------------------------- stamp inputs
\* a source in the middle of the frame, one that drifts over the left edge, and
\* one that has left the frame by the middle of the observation
StampCases ==
    { <<Px(2604), Px(1738), 0, 0, 0, TRUE>>,
      <<Px(EdgeMargin) + 1, Px(1738), 0, -Px(64), 0, TRUE>>,
      <<Px(2604), Px(1738) + 1, 0, -Px(6000), 0, FALSE>> }

InitStamps ==
    /\ \E pick \in [1 .. NumTracked -> StampCases] :
          /\ catalog = [has_flags |-> TRUE,
                        rows |-> [i \in 1 .. NumTracked |->
                                    Row(pick[i][1], pick[i][2], pick[i][3], i)]]
          /\ wcs = [i \in 1 .. NumTracked |-> TrackOf(pick[i])]
    /\ InitCommon

\* get_frame_stamp treats every frame alike; it is called for the last one
NextStamps ==
    \/ \E io_fail \in SUBSET (1 .. NumTracked) : CreateStamps(io_fail)
    \/ \E frames \in {Frames, {0}} : SubtractBackground(frames)
    \/ \E s \in 1 .. NumTracked : \E f \in {NumFrames - 1} :
       \E subtract_background \in BOOLEAN : \E reshape \in BOOLEAN :
          GetFrameStamp(s, f, subtract_background, reshape)

SpecStamps == InitStamps /\ [][NextStamps]_vars

\* ------------------------------------------------------------------- C5
\* C5: create_stamps never raises for a failing source: every source with no
\* dataset is taken up, whichever sources fail, and every source that did not
\* fail has a dataset 'subtracted/<index>' when the call returns.
C5_FailingSourceIsSkipped ==
    last.op = "create_stamps" =>
        /\ last.raised = "none"
        /\ \A s \in 1 .. Len(point_sources[1]) :
              /\ s \notin DOMAIN last.before => s \in last.visited
              /\ s \notin last.failed => s \in DOMAIN subtracted

\* a source fails and a source after it is materialised by the same call
C5_Witness ==
    /\ last.op = "create_stamps"
    /\ \E f \in last.failed : \E s \in DOMAIN subtracted :
          s > f /\ s \notin DOMAIN last.before

\* ------------------------------------------------------------------- C6
\* C6: on any create_stamps run, a source whose dataset is already persisted is
\* not taken up and its dataset is left as it was; the sources taken up are
\* exactly those with no persisted dataset.
C6_PersistedSourcesAreSkipped ==
    last.op = "create_stamps" =>
        /\ \A s \in DOMAIN last.before :
              s \notin last.visited /\ s \in DOMAIN subtracted
                 /\ subtracted[s] = last.before[s]
        /\ \A s \in last.visited : s \notin DOMAIN last.before

\* a re-run after the cube has changed: one dataset is kept although the cube
\* no longer matches it, another source is materialised from the changed cube
C6_Witness ==
    /\ last.op = "create_stamps"
    /\ \E s \in DOMAIN last.before :
          last.before[s] # CubeSlice(data_cube[1], stamps_cache[s])
    /\ \E s \in DOMAIN subtracted :
          s \notin DOMAIN last.before
             /\ subtracted[s] = CubeSlice(data_cube[1], stamps_cache[s])

\* ------------------------------------------------------------------- C9
\* C9: get_frame_stamp with its default arguments, for a source with no dataset
\* 'subtracted/<index>' (and a stamp that overlaps the frame), does not fail:
\* it returns the stamp cut from the data cube at the source's slices.
C9_FallbackReturnsStamp ==
    (/\ last.op = "get_frame_stamp"
     /\ ~last.persisted
     /\ last.subtract_background
     /\ ~last.reshape
     /\ last.raised # "NoOverlapError") =>
        /\ last.raised = "none"
        /\ last.ret # <<>>
        /\ last.ret[1].rows = stamps_cache[last.source].cutout.shape[1]
        /\ last.ret[1].cols = stamps_cache[last.source].cutout.shape[2]

\* ------------------------------------------------------------ variance values
RECURSIVE Gcd(_, _)
Gcd(a, b) == IF b = 0 THEN a ELSE Gcd(b, a % b)

RECURSIVE SumOver(_, _)
SumOver(f, S) ==
    IF S = {} THEN 0
    ELSE LET x == CHOOSE y \in S : TRUE IN f[x] + SumOver(f, S \ {x})

\* a grid value: a fraction in lowest terms, or what IEEE division by zero leaves
Finite(num, den) ==
    LET g == Gcd(num, den)
    IN  [kind |-> "finite", num |-> num \div g, den |-> den \div g]

Zero == [kind |-> "finite", num |-> 0, den |-> 1]
NaN == [kind |-> "nan", num |-> 0, den |-> 0]
Inf == [kind |-> "inf", num |-> 0, den |-> 0]

\* stamp.sum(): the pixels of a frame times the sum of the frame levels
PixelCount(d) == d.rows * d.cols
LevelSum(d) == SumOver(d.frames, Frames)
StampSum(d) == PixelCount(d) * LevelSum(d)

\* numpy broadcasts two (frames, rows, cols) arrays when each pair of axes is
\* equal or has a 1; otherwise the subtraction raises ValueError
Broadcasts(d0, d1) ==
    /\ d0.rows = d1.rows \/ d0.rows = 1 \/ d1.rows = 1
    /\ d0.cols = d1.cols \/ d0.cols = 1 \/ d1.cols = 1

\* ((stamp0 / stamp0.sum() - stamp1 / stamp1.sum()) ** 2).sum().  A pixel of
\* frame f is a / (n0 * A) in stamp0 and b / (n1 * B) in stamp1; with
\* n0 = g * m0 and n1 = g * m1 their difference is
\* (a * m1 * B - b * m0 * A) / (g * m0 * m1 * A * B).
Variance(d0, d1) ==
    LET s0 == StampSum(d0)
        s1 == StampSum(d1)
        g == Gcd(PixelCount(d0), PixelCount(d1))
        m0 == PixelCount(d0) \div g
        m1 == PixelCount(d1) \div g
        A == LevelSum(d0)
        B == LevelSum(d1)
        npix == Max(d0.rows, d1.rows) * Max(d0.cols, d1.cols)
        diff(f) == d0.frames[f] * m1 * B - d1.frames[f] * m0 * A
        den == g * m0 * m1 * A * B
        \* the sign of a pixel of frame f after division by a zero sum; 2 is nan
        Div0(d, f) == IF d.frames[f] = 0 THEN 2 ELSE IF d.frames[f] > 0 THEN 1 ELSE -1
        nanFrame(f) ==
            \/ s0 = 0 /\ Div0(d0, f) = 2
            \/ s1 = 0 /\ Div0(d1, f) = 2
            \/ s0 = 0 /\ s1 = 0 /\ Div0(d0, f) = Div0(d1, f)
    IN  IF s0 # 0 /\ s1 # 0
        THEN Finite(npix * SumOver([f \in Frames |-> diff(f) * diff(f)], Frames),
                    den * den)
        ELSE IF \E f \in Frames : nanFrame(f) THEN NaN ELSE Inf

\* ------------------------------------------------------ get_variance_for_target
ZeroGrid(n) == [i \in 1 .. n |-> [j \in 1 .. n |-> Zero]]

\* the dataset 'vgrid', created on the first call
VgridAfter(n) == IF vgrid = <<>> THEN << ZeroGrid(n) >> ELSE vgrid

\* a variant that looks at the target's own row only
DueOneWay(grid, target_index, n) ==
    {s \in 1 .. n : grid[target_index][s] = Zero}

\* the sources of the loop whose pair with the target is to be computed: both
\* cells of the pair are zero
Due(grid, target_index, n) ==
    {s \in 1 .. n : grid[target_index][s] = Zero /\ grid[s][target_index] = Zero}

\* the due sources the loop gets to: reading the dataset of a source that has
\* none raises KeyError outside the try block and ends the call
Compared(due, store) ==
    {s \in due : \A m \in due : m \notin DOMAIN store => s < m}

\* the cells the loop assigns: the subtraction raises ValueError, which is
\* caught, for a stamp cube of another shape
Assigned(compared, target_index, store) ==
    {s \in compared : Broadcasts(store[target_index], store[s])}

GetVarianceForTarget(target_index) ==
    LET n == Len(PointSourcesAfter[1])
        grid == VgridAfter(n)[1]
        call == [NoCall EXCEPT !.op = "get_variance_for_target",
                               !.source = target_index,
                               !.repeat = target_index \in called]
    IN  /\ target_index \in 1 .. n
        /\ point_sources' = PointSourcesAfter
        /\ called' = called \cup {target_index}
        /\ IF target_index \notin DOMAIN subtracted
           THEN /\ vgrid' = << grid >>
                /\ last' = [call EXCEPT !.raised = "KeyError"]
           ELSE LET due == Due(grid, target_index, n)
                    compared == Compared(due, subtracted)
                    assigned == Assigned(compared, target_index, subtracted)
                IN  /\ vgrid' = << [grid EXCEPT ![target_index] =
                                      [j \in 1 .. n |->
                                         IF j \in assigned
                                         THEN Variance(subtracted[target_index],
                                                       subtracted[j])
                                         ELSE grid[target_index][j]]] >>
                    /\ last' = [call EXCEPT
                                  !.raised = IF due \subseteq DOMAIN subtracted
                                             THEN "none" ELSE "KeyError",
                                  !.due = due,
                                  !.visited = compared,
                                  !.written = {<<target_index, s>> : s \in assigned}]
        /\ UNCHANGED <<catalog, wcs, pixel_locations, stamps_cache, stamp_size,
                       cube_files, data_cube, filled, bg_done, stamp_background,
                       subtracted, attrs, first_geom>>

\* ---------------------------------------------------------- variance inputs
\* stamp cubes with flat frames: every pixel of frame f of the stamp is frames[f]
Flat(rows, cols, level) == [rows |-> rows, cols |-> cols, frames |-> [f \in Frames |-> level]]
Ramp(rows, cols) == [rows |-> rows, cols |-> cols, frames |-> [f \in Frames |-> f + 1]]

\* an all-zero cube, two cubes with the same normalised profile, a cube with
\* another profile and a cube of another shape
StampCubes ==
    { Flat(ExtraRows, ExtraCols, 0),
      Flat(ExtraRows, ExtraCols, 1),
      Flat(ExtraRows, ExtraCols, 2),
      Ramp(ExtraRows, ExtraCols),
      Flat(ExtraRows + SuperPixelPad, ExtraCols, 1) }

\* the store create_stamps left: each source has a stamp cube or, skipped, none
InitVar ==
    /\ catalog = [has_flags |-> TRUE,
                  rows |-> [i \in 1 .. NumSources |-> Row(Px(2604), Px(1738), 0, i)]]
    /\ wcs = [i \in 1 .. NumSources |-> NoTrack]
    /\ point_sources = << FilteredSources(catalog) >>
    /\ pixel_locations = <<>>
    /\ stamps_cache = <<>>
    /\ stamp_size = <<>>
    /\ files = LoadImages(Listing)
    /\ raw_frames = [name \in FileNames |-> Uniform(CameraBias + 10 * NumberOf(name))]
    /\ data_cube = <<>>
    /\ filled = {}
    /\ bg_done = <<>>
    /\ back_box = <<>>
    /\ background_region = <<>>
    /\ \E have \in SUBSET (1 .. NumSources) :
          subtracted \in [have -> StampCubes]
    /\ attrs = <<>>
    /\ vgrid = <<>>
    /\ last = NoCall
    /\ first_geom = <<>>
    /\ called = {}

NextVar == \E t \in 1 .. NumSources : GetVarianceForTarget(t)

SpecVar == InitVar /\ [][NextVar]_vars

\* ------------------------------------------------------------------- C1
\* every source has a stamp cube and all the cubes have one shape
AllCubesOfOneShape ==
    /\ DOMAIN subtracted = 1 .. NumSources
    /\ \A i, j \in 1 .. NumSources :
          subtracted[i].rows = subtracted[j].rows /\ subtracted[i].cols = subtracted[j].cols

\* no stamp cube sums to zero, so that every normalisation is a finite division
NoZeroSum == \A i \in DOMAIN subtracted : StampSum(subtracted[i]) # 0

\* C1: after a full pass (get_variance_for_target has run for every source, on
\* a grid that started all zero, with all stamp cubes of one shape) the grid is
\* symmetric: vgrid[i, j] = vgrid[j, i] for all i, j.  Stated here for stamp
\* cubes of nonzero sum only, the case in which every grid value is finite.
C1_GridSymmetricAfterFullPass ==
    (called = 1 .. NumSources /\ AllCubesOfOneShape /\ NoZeroSum) =>
        \A i, j \in 1 .. NumSources : vgrid[1][i][j] = vgrid[1][j][i]

\* ------------------------------------------------------------------- C2
\* C2: a step never assigns a cell (i, j) when cell (i, j) or cell (j, i) holds
\* a nonzero value before the step, and leaves every nonzero cell as it is.
C2_NonzeroCellsNeverRewritten ==
    [][ vgrid # <<>> =>
          \A i, j \in 1 .. NumSources :
             vgrid[1][i][j] # Zero =>
                /\ vgrid'[1][i][j] = vgrid[1][i][j]
                /\ vgrid'[1][j][i] = vgrid[1][j][i]
                /\ <<i, j>> \notin last'.written
                /\ <<j, i>> \notin last'.written ]_vars

\* a second call for a target whose row holds a nonzero value, made after the
\* other source of that pair has been a target as well
C2_Witness ==
    /\ last.op = "get_variance_for_target"
    /\ last.repeat
    /\ last.raised = "none"
    /\ \E j \in called \ {last.source} :
          vgrid[1][last.source][j] # Zero /\ vgrid[1][j][last.source] = Zero

\* ------------------------------------------------------------------- C3
\* C3: after any sequence of get_variance_for_target calls every diagonal cell
\* of the grid is zero.
C3_DiagonalIsZero ==
    vgrid # <<>> => \A i \in 1 .. NumSources : vgrid[1][i][i] = Zero

\* ------------------------------------------------------------------- C4
\* C4: a per-pair failure never ends the call: whether a due source has a stamp
\* cube of another shape or no stamp cube at all, its cell stays zero and every
\* other due source is still compared.
C4_PairFailureNeverAborts ==
    (/\ last.op = "get_variance_for_target"
     /\ last.source \in DOMAIN subtracted
     /\ NoZeroSum) =>
        /\ last.raised = "none"
        /\ last.visited = {s \in last.due : s \in DOMAIN subtracted}
        /\ \A s \in last.due \ last.visited : vgrid[1][last.source][s] = Zero

====
